---- MODULE Spec2Model ----
(***************************************************************************)
(* Model of src/src/modules.py: the linear-chain CRF layer (sequence       *)
(* score, partition function, Viterbi decoder, loss) and the span-based    *)
(* f1_score evaluator.                                                     *)
(*                                                                         *)
(* Conventions.                                                            *)
(*  - Tag ids are 0..NumTags-1 as in the source.  Positions of a sequence  *)
(*    are 1..L here (TLA+ sequences); source position t is t+1 here.       *)
(*  - The CRF operators are written for one example b of the batch: every  *)
(*    tensor operation of the source keeps dimension 0 (the batch) and     *)
(*    reduces only over the tag or the time axis.                          *)
(*  - Scores are integers.  A log-space real x of the partition function   *)
(*    is represented by the exact rational 2^x (a normalised fraction      *)
(*    <<n, d>>): log-space "+" is the product of representations, exp and  *)
(*    log change the reading of a representation (log-space <-> linear),   *)
(*    sum is the sum of fractions, max is the max of fractions.  The       *)
(*    arithmetic is exact; floating-point rounding is not modelled.        *)
(***************************************************************************)
EXTENDS Integers, Sequences, FiniteSets, TLC

VARIABLES
    feats,              \* emissions of one example: [1..L -> [Tags -> Int]]
    transitions,        \* CRF.transitions        [from][to]
    start_transitions,  \* CRF.start_transitions  [tag]
    stop_transitions,   \* CRF.stop_transitions   [tag]
    pc,                 \* position of the running call
    ret,                \* what the last call returned or raised
    i,                  \* loop index of _partition_function / _viterbi
    a,                  \* _partition_function: the forward vector
    v,                  \* _viterbi: the max-score vector, then the best score
    paths,              \* _viterbi: the back-pointers of each iteration
    tags,               \* _viterbi: the tags collected by the backtrack
    preds,              \* f1_score: the caller's list of predicted sequences
    targets,            \* f1_score: the caller's list of gold sequences
    TP, FN, FP,         \* f1_score: the running counts
    k,                  \* f1_score: the next pair of zip(preds, targets)
    calls,              \* f1_score: calls started so far on these lists
    entry,              \* history: preds and targets at entry of the call
    first,              \* history: counts and outcome of the first call
    feats_shape,        \* loss: feats.shape
    tags_shape,         \* loss: tags.shape
    tags_max,           \* loss: the largest value in tags
    computed            \* loss: the computations performed so far

crf_params == <<transitions, start_transitions, stop_transitions>>
crf_locals == <<i, a, v, paths, tags>>
crf_vars == <<feats, crf_params, crf_locals>>
f1_vars == <<preds, targets, TP, FN, FP, k, calls, entry, first>>
loss_vars == <<feats_shape, tags_shape, tags_max, computed>>
vars == <<crf_vars, f1_vars, loss_vars, pc, ret>>

(***************************************************************************)
(* Bounds and input sets                                                   *)
(***************************************************************************)
MaxLen == 3
NumTags == 3

Tags == 0 .. (NumTags - 1)

\* one emission row: all zero, or one tag preferred by 2
FeatRows == { [j \in Tags |-> IF j = pref THEN w ELSE 0] : pref \in Tags, w \in {0, 2} }

\* start / stop potentials: all zero, or the first or the last tag preferred by 1
BoundaryRows ==
    { [j \in Tags |-> IF j = pref THEN w ELSE 0] : pref \in {0, NumTags - 1}, w \in {0, 1} }

\* transition matrices: all zero, or one (from, to) pair preferred by 3
TransitionChoices ==
    { [x \in Tags |-> [y \in Tags |-> IF x = from /\ y = to THEN w ELSE 0]] :
        from \in Tags, to \in Tags, w \in {0, 3} }

\* emissions whose last dimension is not num_tags: one column short or long
WrongRows == { [j \in 0 .. (C - 1) |-> 0] : C \in {NumTags - 1, NumTags + 1} }

\* all tag paths of length n
Paths(n) == [1 .. n -> Tags]

(***************************************************************************)
(* Arithmetic helpers                                                      *)
(***************************************************************************)
RECURSIVE SumSeq(_)
SumSeq(s) == IF s = <<>> THEN 0 ELSE Head(s) + SumSeq(Tail(s))

Pow2(x) == 2 ^ x

RECURSIVE GCD(_, _)
GCD(m, n) == IF n = 0 THEN m ELSE GCD(n, m % n)

\* normalised fractions <<n, d>>, d > 0
Frac(n, d) == LET g == GCD(n, d) IN IF n = 0 THEN <<0, 1>> ELSE <<n \div g, d \div g>>
FracAdd(x, y) ==
    LET d == (x[2] \div GCD(x[2], y[2])) * y[2]
    IN  Frac(x[1] * (d \div x[2]) + y[1] * (d \div y[2]), d)
FracMul(x, y) ==
    LET g1 == GCD(x[1], y[2])
        g2 == GCD(y[1], x[2])
    IN  IF x[1] = 0 \/ y[1] = 0 THEN <<0, 1>>
        ELSE <<(x[1] \div g1) * (y[1] \div g2), (x[2] \div g2) * (y[2] \div g1)>>
FracDiv(x, y) == FracMul(x, <<y[2], y[1]>>)
FracLE(x, y) == x[1] * y[2] <= y[1] * x[2]

\* the maximum of a function's values: integers, and fractions
MaxOf(f) == CHOOSE m \in {f[x] : x \in DOMAIN f} : \A x \in DOMAIN f : f[x] <= m
FracMaxOf(f) == CHOOSE m \in {f[x] : x \in DOMAIN f} : \A x \in DOMAIN f : FracLE(f[x], m)

RECURSIVE FracSumOver(_, _)
FracSumOver(f, I) ==
    IF I = {} THEN <<0, 1>>
    ELSE LET x == CHOOSE y \in I : TRUE IN FracAdd(f[x], FracSumOver(f, I \ {x}))

\* the log-space representation of an integer score
Lg(x) == <<Pow2(x), 1>>

(***************************************************************************)
(* CRF._sequence_score  (modules.py:56-84), for one example                *)
(***************************************************************************)
\* Tensor.unfold(1, size, step) on one example's row: the windows of `size`
\* consecutive entries; torch raises RuntimeError when the dimension is
\* shorter than `size`
Unfold(row, size, step) ==
    IF Len(row) < size THEN [raised |-> TRUE, windows |-> <<>>]
    ELSE [raised |-> FALSE,
          windows |-> [w \in 1 .. ((Len(row) - size) \div step + 1) |->
                         SubSeq(row, (w - 1) * step + 1, (w - 1) * step + size)]]

\* modules.py:68  feats.gather(2, tags.unsqueeze(-1)).squeeze(-1).sum(dim=-1)
FeatScore(tag_seq) == SumSeq([t \in 1 .. Len(tag_seq) |-> feats[t][tag_seq[t]]])

\* modules.py:77-78  transitions[indices].squeeze(0).sum(dim=-1): chunk 0 of
\* the permuted pairs is the "from" tag, chunk 1 the "to" tag
TransScore(tags_pairs) ==
    SumSeq([w \in 1 .. Len(tags_pairs) |->
                transitions[tags_pairs[w][1]][tags_pairs[w][2]]])

\* modules.py:81-82
StartScore(tag_seq) == start_transitions[tag_seq[1]]
StopScore(tag_seq) == stop_transitions[tag_seq[Len(tag_seq)]]

_sequence_score(tag_seq) ==
    LET tags_pairs == Unfold(tag_seq, 2, 1)
    IN  IF tags_pairs.raised
        THEN [kind |-> "RuntimeError", value |-> 0]
        ELSE [kind |-> "value",
              value |-> FeatScore(tag_seq) + StartScore(tag_seq)
                        + TransScore(tags_pairs.windows) + StopScore(tag_seq)]

(***************************************************************************)
(* CRF._log_sum_exp and CRF._partition_function  (modules.py:86-108,       *)
(* 146-151), for one example, on log-space representations                 *)
(***************************************************************************)
\* feats.shape[1], feats.shape[2]
SeqSize == Len(feats)
FeatsNumTags == Cardinality(DOMAIN feats[1])

\* _log_sum_exp without adding max_val back
LogSumExpNoMax(logits) ==
    LET max_val == FracMaxOf(logits)
        shifted == [x \in DOMAIN logits |-> FracDiv(logits[x], max_val)]
    IN  FracSumOver(shifted, DOMAIN logits)

\* modules.py:150-151  max_val + (logits - max_val).exp().sum(dim).log()
_log_sum_exp(logits) ==
    LET max_val == FracMaxOf(logits)
        shifted == [x \in DOMAIN logits |-> FracDiv(logits[x], max_val)]
    IN  FracMul(max_val, FracSumOver(shifted, DOMAIN logits))

\* modules.py:105-106  the logits of one loop iteration for target tag j:
\* a[from] + transitions[from][j] + feat[j], to be reduced over "from" (dim 1)
PartitionLogits(feat, j) ==
    [x \in Tags |-> FracMul(FracMul(a[x], Lg(transitions[x][j])), Lg(feat[j]))]

\* modules.py:96-102
PartitionStart ==
    /\ pc = "start"
    /\ IF NumTags # FeatsNumTags
       THEN /\ pc' = "partition_raised"
            /\ ret' = [kind |-> "ValueError", at |-> "num_tags"]
            /\ UNCHANGED a
       ELSE /\ pc' = "partition_loop"
            /\ a' = [j \in Tags |-> FracMul(Lg(feats[1][j]), Lg(start_transitions[j]))]
            /\ UNCHANGED ret
    /\ i' = 1
    /\ UNCHANGED <<f1_vars, loss_vars, feats, crf_params, v, paths, tags>>

\* modules.py:104-106  one iteration of `for i in range(1, seq_size)`
PartitionLoop ==
    /\ pc = "partition_loop"
    /\ i < SeqSize
    /\ a' = [j \in Tags |-> _log_sum_exp(PartitionLogits(feats[i + 1], j))]
    /\ i' = i + 1
    /\ UNCHANGED <<f1_vars, loss_vars, feats, crf_params, pc, ret, v, paths, tags>>

\* modules.py:108
PartitionReturn ==
    /\ pc = "partition_loop"
    /\ i >= SeqSize
    /\ ret' = [kind |-> "logZ",
               value |-> _log_sum_exp([j \in Tags |->
                            FracMul(a[j], Lg(stop_transitions[j]))])]
    /\ pc' = "partition_done"
    /\ UNCHANGED <<f1_vars, loss_vars, feats, crf_params, crf_locals>>

(***************************************************************************)
(* CRF.forward and CRF._viterbi  (modules.py:19-24, 110-143), one example  *)
(***************************************************************************)
\* the indices Tensor.max may report for a row: an index of a maximal entry
ArgMaxes(f) == {x \in DOMAIN f : f[x] = MaxOf(f)}

\* the candidates with the transition matrix read as [to][from]
ViterbiCandTransposed(from, to) == v[from] + transitions[to][from]

\* modules.py:128  v.unsqueeze(-1) + transitions, indexed [from][to]
ViterbiCand(from, to) == v[from] + transitions[from][to]

\* modules.py:19-24, 117-124  forward's rank check passes (feats is rank 3)
ViterbiStart ==
    /\ pc = "start"
    /\ IF NumTags # FeatsNumTags
       THEN /\ pc' = "forward_raised"
            /\ ret' = [kind |-> "ValueError", at |-> "num_tags"]
            /\ UNCHANGED v
       ELSE /\ pc' = "viterbi_loop"
            /\ v' = [j \in Tags |-> feats[1][j] + start_transitions[j]]
            /\ UNCHANGED ret
    /\ paths' = <<>>
    /\ i' = 1
    /\ UNCHANGED <<f1_vars, loss_vars, feats, crf_params, a, tags>>

\* modules.py:126-131  one iteration of `for i in range(1, seq_size)`.
\* paths records, for each target tag, the indices max(1) may have reported;
\* the one index is fixed where the backtrack reads it (each entry of an idx
\* tensor is read at most once per example).
ViterbiLoop ==
    /\ pc = "viterbi_loop"
    /\ i < SeqSize
    /\ paths' = Append(paths,
                  [j \in Tags |-> ArgMaxes([x \in Tags |-> ViterbiCand(x, j)])])
    /\ v' = [j \in Tags |->
                MaxOf([x \in Tags |-> ViterbiCand(x, j)]) + feats[i + 1][j]]
    /\ i' = i + 1
    /\ UNCHANGED <<f1_vars, loss_vars, feats, crf_params, pc, ret, a, tags>>

\* modules.py:134-137  v, tag = (v + stop_transitions).max(1, True)
ViterbiTerminate ==
    /\ pc = "viterbi_loop"
    /\ i >= SeqSize
    /\ LET final == [j \in Tags |-> v[j] + stop_transitions[j]]
       IN  /\ v' = MaxOf(final)
           /\ \E tag \in ArgMaxes(final) : tags' = <<tag>>
    /\ pc' = "backtrack"
    /\ UNCHANGED <<f1_vars, loss_vars, feats, crf_params, ret, i, a, paths>>

\* modules.py:138-140  one iteration of `for idx in reversed(paths)`
ViterbiBacktrack ==
    /\ pc = "backtrack"
    /\ Len(tags) <= Len(paths)
    /\ LET idx == paths[Len(paths) - Len(tags) + 1]
           tag == tags[Len(tags)]
       IN  \E prev \in idx[tag] : tags' = Append(tags, prev)
    /\ UNCHANGED <<f1_vars, loss_vars, feats, crf_params, pc, ret, i, a, v, paths>>

\* modules.py:142-143  tags.reverse(); return torch.cat(tags, 1)
ViterbiReturn ==
    /\ pc = "backtrack"
    /\ Len(tags) > Len(paths)
    /\ ret' = [kind |-> "tags",
               tags |-> [t \in 1 .. Len(tags) |-> tags[Len(tags) + 1 - t]]]
    /\ pc' = "forward_done"
    /\ UNCHANGED <<f1_vars, loss_vars, feats, crf_params, crf_locals>>

(***************************************************************************)
(* The CRF specifications                                                  *)
(***************************************************************************)
\* the variables of the calls a specification does not make
IdleCRF ==
    /\ feats = <<>>
    /\ transitions = <<>>
    /\ start_transitions = <<>>
    /\ stop_transitions = <<>>
    /\ i = 0
    /\ a = <<>>
    /\ v = <<>>
    /\ paths = <<>>
    /\ tags = <<>>

IdleF1 ==
    /\ preds = <<>>
    /\ targets = <<>>
    /\ TP = 0
    /\ FN = 0
    /\ FP = 0
    /\ k = 0
    /\ calls = 0
    /\ entry = <<>>
    /\ first = <<>>

IdleLoss ==
    /\ feats_shape = <<>>
    /\ tags_shape = <<>>
    /\ tags_max = 0
    /\ computed = <<>>

InitCRF ==
    /\ \E L \in 1 .. MaxLen : feats \in [1 .. L -> FeatRows] \cup
                                       {[t \in 1 .. L |-> r] : r \in WrongRows}
    /\ transitions \in TransitionChoices
    /\ start_transitions \in BoundaryRows
    /\ stop_transitions \in BoundaryRows
    /\ pc = "start"
    /\ ret = [kind |-> "none"]
    /\ i = 0
    /\ a = <<>>
    /\ v = <<>>
    /\ paths = <<>>
    /\ tags = <<>>
    /\ IdleF1
    /\ IdleLoss

\* a call of CRF._sequence_score on any tag sequence of the emissions' length
SequenceScore ==
    /\ pc = "start"
    /\ FeatsNumTags = NumTags
    /\ \E tags_in \in Paths(SeqSize) :
          ret' = [call |-> tags_in, result |-> _sequence_score(tags_in)]
    /\ pc' = "score_done"
    /\ UNCHANGED <<f1_vars, loss_vars, feats, crf_params, crf_locals>>

NextCRF ==
    \/ PartitionStart \/ PartitionLoop \/ PartitionReturn
    \/ ViterbiStart \/ ViterbiLoop \/ ViterbiTerminate
    \/ ViterbiBacktrack \/ ViterbiReturn

SpecCRF == InitCRF /\ [][NextCRF]_vars

SpecScore == InitCRF /\ [][SequenceScore]_vars

(***************************************************************************)
(* The scoring function of the claims, by direct enumeration               *)
(***************************************************************************)
\* emissions and transitions of path p from position t on: the emission at
\* every position, the transition of every consecutive pair (t, t+1)
RECURSIVE PathTail(_, _)
PathTail(p, t) ==
    IF t = Len(p) THEN feats[t][p[t]]
    ELSE feats[t][p[t]] + transitions[p[t]][p[t + 1]] + PathTail(p, t + 1)

\* emission sum + transition sum over consecutive pairs + S[first] + E[last]
PathScore(p) == PathTail(p, 1) + start_transitions[p[1]] + stop_transitions[p[Len(p)]]

\* sum of 2^PathScore over every full-length path that extends prefix
RECURSIVE SumOverPaths(_)
SumOverPaths(prefix) ==
    IF Len(prefix) = SeqSize THEN Pow2(PathScore(prefix))
    ELSE SumSeq([j \in 1 .. NumTags |-> SumOverPaths(Append(prefix, j - 1))])

\* sum over all C^L paths of exp(path score)
BruteForceZ == SumOverPaths(<<>>)

\* C1: the path _viterbi returns scores at least as much as each of the
\* C^L candidate paths, and its score is the maximum found at termination
C1_ViterbiOptimal ==
    pc = "forward_done" =>
        /\ Len(ret.tags) = SeqSize
        /\ LET returned == PathScore(ret.tags)
           IN  /\ \A p \in Paths(SeqSize) : PathScore(p) <= returned
               /\ returned = v

\* a decode of a sequence of at least two positions in which the best first
\* tag alone (emission + start) is not the first tag of the returned path
C1_Witness ==
    /\ pc = "forward_done"
    /\ SeqSize >= 2
    /\ \E j \in Tags : feats[1][j] + start_transitions[j]
                         > feats[1][ret.tags[1]] + start_transitions[ret.tags[1]]

\* C2: the partition value is the log of the sum over all C^L paths of
\* exp(path score), hence at least every single path's score
C2_PartitionIsEnumeration ==
    pc = "partition_done" =>
        /\ ret.value = <<BruteForceZ, 1>>
        /\ \A p \in Paths(SeqSize) : FracLE(Lg(PathScore(p)), ret.value)

\* a partition value over a sequence of at least two positions whose paths
\* do not all score the same
C2_Witness ==
    /\ pc = "partition_done"
    /\ SeqSize >= 2
    /\ \E p, q \in Paths(SeqSize) : PathScore(p) < PathScore(q)

\* C3: _sequence_score returns emission + transition + start + stop for
\* every tag sequence of every length L >= 1
C3_ScoreDecomposition ==
    pc = "score_done" =>
        ret.result = [kind |-> "value", value |-> PathScore(ret.call)]

(***************************************************************************)
(* f1_score  (modules.py:154-215)                                          *)
(***************************************************************************)
\* number of calls of f1_score made on the same lists; total length of the
\* sentinel-extended input (each pair: its tokens plus one)
MaxCalls == 2
MaxSize == 4

Min(m, n) == IF m <= n THEN m ELSE n

\* Python list indexing lst[idx]: a negative idx counts from the end
At(lst, idx) == IF idx >= 0 THEN lst[idx + 1] ELSE lst[Len(lst) + idx + 1]

\* the scan that stops one position early
ScanLenShort(pred) == Len(pred) - 1

\* modules.py:174, 194  range(len(pred)): the scans visit 0 .. ScanLen - 1
ScanLen(pred) == Len(pred)

\* the comparison that leaves out the position before the span
NegFlagFromStart(pred, true, stpt, endpt) ==
    \E comp_ind \in stpt .. endpt : At(true, comp_ind) # At(pred, comp_ind)

\* modules.py:181-184, 201-204  neg_flag after the comparison loop over
\* range(stpt-1, endpt+1)
NegFlag(pred, true, stpt, endpt) ==
    \E comp_ind \in (stpt - 1) .. endpt : At(true, comp_ind) # At(pred, comp_ind)

\* modules.py:175-191  the body of the first scan at position idx; loc holds
\* the locals stpt, endpt, entity_flag and the counts (neg_flag is False
\* whenever the body is entered or left)
Pass1Body(pred, true, idx, loc) ==
    LET opened == IF At(true, idx) # 0 /\ ~loc.entity_flag
                  THEN [loc EXCEPT !.stpt = idx, !.entity_flag = TRUE]
                  ELSE loc
    IN  IF At(true, idx) = 0 /\ opened.entity_flag
        THEN LET neg_flag == NegFlag(pred, true, opened.stpt, idx)
             IN  [opened EXCEPT !.endpt = idx,
                                !.FN = IF neg_flag THEN @ + 1 ELSE @,
                                !.TP = IF neg_flag THEN @ ELSE @ + 1,
                                !.entity_flag = FALSE]
        ELSE opened

\* modules.py:174-191
RECURSIVE Pass1(_, _, _, _)
Pass1(pred, true, idx, loc) ==
    IF idx >= ScanLen(pred) THEN loc
    ELSE Pass1(pred, true, idx + 1, Pass1Body(pred, true, idx, loc))

\* modules.py:195-209  the body of the second scan at position idx
Pass2Body(pred, true, idx, loc) ==
    LET opened == IF At(pred, idx) = 1 /\ ~loc.entity_flag
                  THEN [loc EXCEPT !.stpt = idx, !.entity_flag = TRUE]
                  ELSE loc
    IN  IF At(pred, idx) = 0 /\ opened.entity_flag
        THEN LET neg_flag == NegFlag(pred, true, opened.stpt, idx)
             IN  [opened EXCEPT !.endpt = idx,
                                !.FP = IF neg_flag THEN @ + 1 ELSE @,
                                !.entity_flag = FALSE]
        ELSE opened

\* modules.py:194-209
RECURSIVE Pass2(_, _, _, _)
Pass2(pred, true, idx, loc) ==
    IF idx >= ScanLen(pred) THEN loc
    ELSE Pass2(pred, true, idx + 1, Pass2Body(pred, true, idx, loc))

\* the aggregation with the factor 2 left out
AggregateNoFactor(tp, fn, fp) ==
    IF tp + fp = 0 \/ tp + fn = 0 THEN [kind |-> "ZeroDivisionError", value |-> <<0, 1>>]
    ELSE LET precision == Frac(tp, tp + fp)
             recall == Frac(tp, tp + fn)
         IN  [kind |-> "value",
              value |-> IF precision # <<0, 1>> \/ recall # <<0, 1>>
                        THEN FracDiv(FracMul(precision, recall),
                                     FracAdd(precision, recall))
                        ELSE <<0, 1>>]

\* the aggregation with zero denominators guarded
AggregateGuarded(tp, fn, fp) ==
    LET precision == IF tp + fp = 0 THEN <<0, 1>> ELSE Frac(tp, tp + fp)
        recall == IF tp + fn = 0 THEN <<0, 1>> ELSE Frac(tp, tp + fn)
    IN  [kind |-> "value",
         value |-> IF precision # <<0, 1>> \/ recall # <<0, 1>>
                   THEN FracDiv(FracMul(<<2, 1>>, FracMul(precision, recall)),
                                FracAdd(precision, recall))
                   ELSE <<0, 1>>]

\* modules.py:211-215  precision, recall and f1 as exact fractions; the two
\* divisions raise ZeroDivisionError on a zero denominator
Aggregate(tp, fn, fp) ==
    IF tp + fp = 0 \/ tp + fn = 0 THEN [kind |-> "ZeroDivisionError", value |-> <<0, 1>>]
    ELSE LET precision == Frac(tp, tp + fp)
             recall == Frac(tp, tp + fn)
         IN  [kind |-> "value",
              value |-> IF precision # <<0, 1>> \/ recall # <<0, 1>>
                        THEN FracDiv(FracMul(<<2, 1>>, FracMul(precision, recall)),
                                     FracAdd(precision, recall))
                        ELSE <<0, 1>>]

\* modules.py:162-163  a call on the caller's lists (the first, or one more
\* on the same list objects after the previous call ended)
F1Call ==
    /\ pc \in {"start", "f1_returned", "f1_raised"}
    /\ calls < MaxCalls
    /\ calls' = calls + 1
    /\ entry' = [preds |-> preds, targets |-> targets]
    /\ TP' = 0
    /\ FN' = 0
    /\ FP' = 0
    /\ k' = 1
    /\ pc' = "f1_loop"
    /\ UNCHANGED <<crf_vars, loss_vars, preds, targets, first, ret>>

\* modules.py:164-209  one iteration of `for pred, true in zip(preds, targets)`
F1Iterate ==
    /\ pc = "f1_loop"
    /\ k <= Min(Len(preds), Len(targets))
    /\ IF Len(preds[k]) # Len(targets[k])
       THEN /\ pc' = "f1_raised"
            /\ ret' = [kind |-> "AssertionError", value |-> <<0, 1>>]
            /\ first' = IF calls = 1
                        THEN [TP |-> TP, FN |-> FN, FP |-> FP, ret |-> ret']
                        ELSE first
            /\ UNCHANGED <<preds, targets, TP, FN, FP, k>>
       ELSE LET pred == Append(preds[k], 0)
                true == Append(targets[k], 0)
                loc0 == [stpt |-> 0, endpt |-> 0, entity_flag |-> FALSE,
                         TP |-> TP, FN |-> FN, FP |-> FP]
                loc == Pass2(pred, true, 0, Pass1(pred, true, 0, loc0))
            IN  /\ preds' = [preds EXCEPT ![k] = pred]
                /\ targets' = [targets EXCEPT ![k] = true]
                /\ TP' = loc.TP
                /\ FN' = loc.FN
                /\ FP' = loc.FP
                /\ k' = k + 1
                /\ UNCHANGED <<pc, ret, first>>
    /\ UNCHANGED <<crf_vars, loss_vars, calls, entry>>

\* modules.py:211-215
F1Return ==
    /\ pc = "f1_loop"
    /\ k > Min(Len(preds), Len(targets))
    /\ ret' = Aggregate(TP, FN, FP)
    /\ pc' = IF ret'.kind = "value" THEN "f1_returned" ELSE "f1_raised"
    /\ first' = IF calls = 1
                THEN [TP |-> TP, FN |-> FN, FP |-> FP, ret |-> ret']
                ELSE first
    /\ UNCHANGED <<crf_vars, loss_vars, preds, targets, TP, FN, FP, k, calls, entry>>

\* every pair <<pred, true>> of tag sequences of length n
SeqPairs(n) == [1 .. n -> Tags] \X [1 .. n -> Tags]

\* every list of pairs of equal-length sequences whose sentinel-extended
\* lengths add up to at most budget
RECURSIVE Inputs(_)
Inputs(budget) ==
    {<<>>} \cup
    UNION { { <<pair>> \o rest : pair \in SeqPairs(n), rest \in Inputs(budget - n - 1) } :
            n \in 0 .. (budget - 1) }

InitF1 ==
    /\ \E inp \in Inputs(MaxSize) :
          /\ preds = [j \in 1 .. Len(inp) |-> inp[j][1]]
          /\ targets = [j \in 1 .. Len(inp) |-> inp[j][2]]
    /\ TP = 0
    /\ FN = 0
    /\ FP = 0
    /\ k = 0
    /\ calls = 0
    /\ entry = <<>>
    /\ first = <<>>
    /\ pc = "start"
    /\ ret = [kind |-> "none"]
    /\ IdleCRF
    /\ IdleLoss

NextF1 == F1Call \/ F1Iterate \/ F1Return

SpecF1 == InitF1 /\ [][NextF1]_vars

(***************************************************************************)
(* The spans of the claims, read off the sequences (positions 1..Len)      *)
(***************************************************************************)
F1Ended == pc \in {"f1_returned", "f1_raised"}

\* pairs the running (or ended) call has processed: 1 .. k - 1
Processed == IF pc \in {"f1_loop", "f1_returned", "f1_raised"} THEN 1 .. (k - 1) ELSE {}

\* the maximal runs <<s, e>> of nonzero values of a sequence
MaximalRuns(seq) ==
    { r \in (1 .. Len(seq)) \X (1 .. Len(seq)) :
        /\ r[1] <= r[2]
        /\ \A x \in r[1] .. r[2] : seq[x] # 0
        /\ r[1] = 1 \/ seq[r[1] - 1] = 0
        /\ r[2] = Len(seq) \/ seq[r[2] + 1] = 0 }

\* the positions compared for a span that starts at s and whose first
\* following zero is at e, in a sentinel-extended sequence of length n:
\* s-1 .. e, where the position before the first one is the sentinel
ComparedPositions(s, e, n) == (s .. e) \cup {IF s > 1 THEN s - 1 ELSE n}

\* gold run r of processed pair j agrees with the prediction on all of them
RunIsTP(j, r) ==
    \A x \in ComparedPositions(r[1], r[2] + 1, Len(targets[j])) :
        targets[j][x] = preds[j][x]

GoldRuns(j) == MaximalRuns(entry.targets[j])
TPRuns(j) == { r \in GoldRuns(j) : RunIsTP(j, r) }

\* the predicted spans <<s, e>> of a sentinel-extended prediction: opened at
\* a 1 with no span open (no 1 since the last 0), closed at the next 0
PredSpans(seq) ==
    { r \in (1 .. Len(seq)) \X (1 .. Len(seq)) :
        /\ r[1] < r[2]
        /\ seq[r[1]] = 1
        /\ \A x \in r[1] .. (r[2] - 1) : seq[x] # 0
        /\ seq[r[2]] = 0
        /\ \A m \in 1 .. (r[1] - 1) :
              (\A x \in m .. (r[1] - 1) : seq[x] # 0) => seq[m] # 1 }

\* predicted span r of processed pair j differs from the target somewhere
SpanDiffers(j, r) ==
    \E x \in ComparedPositions(r[1], r[2], Len(preds[j])) :
        targets[j][x] # preds[j][x]

RECURSIVE SumCard(_, _)
SumCard(F(_), J) ==
    IF J = {} THEN 0
    ELSE LET j == CHOOSE x \in J : TRUE IN Cardinality(F(j)) + SumCard(F, J \ {j})

FNRuns(j) == GoldRuns(j) \ TPRuns(j)
DifferingSpans(j) == { r \in PredSpans(preds[j]) : SpanDiffers(j, r) }

\* C5: when preds and targets are elementwise equal and targets holds a
\* nonzero tag, f1_score ends with TP = number of maximal nonzero runs of
\* targets, FP = 0, FN = 0, and returns 1
C5_PerfectPrediction ==
    ( /\ F1Ended
      /\ entry.preds = entry.targets
      /\ \E j \in DOMAIN entry.targets : \E x \in DOMAIN entry.targets[j] :
            entry.targets[j][x] # 0 )
    => /\ pc = "f1_returned"
       /\ TP = SumCard(GoldRuns, DOMAIN entry.targets)
       /\ FP = 0
       /\ FN = 0
       /\ ret = [kind |-> "value", value |-> <<1, 1>>]

\* a perfect prediction with a span starting at position 0 and a span ending
\* at the last position of the sequence has been scored
C5_Witness ==
    /\ pc = "f1_returned"
    /\ entry.preds = entry.targets
    /\ \E j \in DOMAIN entry.targets :
          /\ \E r \in GoldRuns(j) : r[1] = 1
          /\ \E r \in GoldRuns(j) : r[1] > 1 /\ r[2] = Len(entry.targets[j])
    /\ TP >= 2

\* C6: f1_score raises ZeroDivisionError exactly when TP+FP = 0 or
\* TP+FN = 0 -- in particular on all-zero input, and when targets has spans
\* but preds holds no tag 1 and no gold span matches -- and otherwise
\* returns 2PR/(P+R) = 2TP/(2TP+FP+FN), which is 0 when P and R are both 0
C6_ZeroDivision ==
    F1Ended =>
        /\ (TP + FP = 0 \/ TP + FN = 0)
              => (pc = "f1_raised" /\ ret.kind = "ZeroDivisionError")
        /\ ~(TP + FP = 0 \/ TP + FN = 0)
              => /\ pc = "f1_returned"
                 /\ ret.kind = "value"
                 /\ ret.value = IF TP = 0 THEN <<0, 1>>
                                ELSE Frac(2 * TP, 2 * TP + FP + FN)
        /\ ( \A j \in DOMAIN entry.targets : \A x \in DOMAIN entry.targets[j] :
                entry.targets[j][x] = 0 /\ entry.preds[j][x] = 0 )
              => ret.kind = "ZeroDivisionError"
        /\ ( /\ \E j \in DOMAIN entry.targets : GoldRuns(j) # {}
             /\ \A j \in DOMAIN entry.preds : \A x \in DOMAIN entry.preds[j] :
                   entry.preds[j][x] # 1
             /\ \A j \in DOMAIN entry.targets : TPRuns(j) = {} )
              => ret.kind = "ZeroDivisionError"

\* a call on targets with a span and predictions that hold a nonzero tag but
\* no tag 1 has raised
C6_Witness ==
    /\ pc = "f1_raised"
    /\ ret.kind = "ZeroDivisionError"
    /\ FN >= 1
    /\ \E j \in DOMAIN entry.preds : \E x \in DOMAIN entry.preds[j] :
          entry.preds[j][x] # 0

\* C7: after f1_score returns or fails, every sequence of preds and of
\* targets has the length and the elements it had before the call
C7_NoMutation ==
    F1Ended => (preds = entry.preds /\ targets = entry.targets)

\* C8: the first scan adds one to TP or FN for each maximal nonzero run of
\* the targets and nothing else: TP counts the runs that agree with the
\* prediction on s-1 .. e, FN the others
C8_GoldSpansOnce ==
    /\ TP = SumCard(TPRuns, Processed)
    /\ FN = SumCard(FNRuns, Processed)
    /\ TP + FN = SumCard(GoldRuns, Processed)

\* a call has ended having counted a TP for a run that starts at position 0
\* and an FN for another run
C8_Witness ==
    /\ F1Ended
    /\ FN >= 1
    /\ \E j \in Processed : \E r \in TPRuns(j) : r[1] = 1

\* C9: the second scan counts one FP for each predicted span that differs
\* from the target on start-1 .. end, and every predicted span it finds
\* matching lies inside a gold span the first scan counted as TP
C9_MatchedSpanWasTP ==
    /\ FP = SumCard(DifferingSpans, Processed)
    /\ \A j \in Processed : \A r \in PredSpans(preds[j]) \ DifferingSpans(j) :
          \E g \in TPRuns(j) : g[1] <= r[1] /\ r[2] - 1 <= g[2]

\* C10: when the first call returned a value, every later call on the same
\* lists passes the assertion, raises nothing, and ends with the counts and
\* the F1 of the first call
C10_RepeatStable ==
    (calls >= 2 /\ first.ret.kind = "value") =>
        /\ pc # "f1_raised"
        /\ pc = "f1_returned" =>
              /\ TP = first.TP
              /\ FN = first.FN
              /\ FP = first.FP
              /\ ret = first.ret

\* a second call has returned on lists with a true positive and a false
\* positive, one of the sequences having a span that ends at its last position
C10_Witness ==
    /\ calls >= 2
    /\ pc = "f1_returned"
    /\ TP >= 1
    /\ FP >= 1
    /\ \E j \in DOMAIN targets :
          Len(targets[j]) > calls /\ targets[j][Len(targets[j]) - calls] # 0

(***************************************************************************)
(* CRF.loss  (modules.py:26-54) on the shapes of its arguments: which      *)
(* check or computation runs when, and what it raises                      *)
(***************************************************************************)
\* sizes a dimension takes: 1, num_tags, num_tags + 1
LossDims == {1, NumTags, NumTags + 1}

\* every shape of rank lo .. hi
Shapes(lo, hi) == UNION { [1 .. rank -> LossDims] : rank \in lo .. hi }

InitLoss ==
    /\ feats_shape \in Shapes(2, 4)
    /\ tags_shape \in Shapes(1, 3)
    /\ tags_max \in Tags
    /\ computed = <<>>
    /\ pc = "start"
    /\ ret = [kind |-> "none"]
    /\ IdleCRF
    /\ IdleF1

\* modules.py:38-46  the three shape checks of loss
LossCall ==
    /\ pc = "start"
    /\ IF Len(feats_shape) # 3
       THEN /\ pc' = "loss_raised"
            /\ ret' = [kind |-> "ValueError", at |-> "feats must be 3-d"]
       ELSE IF Len(tags_shape) # 2
       THEN /\ pc' = "loss_raised"
            /\ ret' = [kind |-> "ValueError", at |-> "tags must be 2-d"]
       ELSE IF SubSeq(feats_shape, 1, 2) # tags_shape
       THEN /\ pc' = "loss_raised"
            /\ ret' = [kind |-> "ValueError", at |-> "first two dimensions"]
       ELSE /\ pc' = "loss_sequence_score"
            /\ UNCHANGED ret
    /\ UNCHANGED <<crf_vars, f1_vars, loss_vars>>

\* modules.py:48, 65-84  sequence_score = self._sequence_score(feats, tags):
\* gather(2, ...) raises when a tag is not below feats.shape[2], unfold(1, 2, 1)
\* when the sequence has fewer than two positions
LossSequenceScore ==
    /\ pc = "loss_sequence_score"
    /\ IF tags_max >= feats_shape[3]
       THEN /\ pc' = "loss_raised"
            /\ ret' = [kind |-> "RuntimeError", at |-> "gather"]
            /\ UNCHANGED computed
       ELSE IF tags_shape[2] < 2
       THEN /\ pc' = "loss_raised"
            /\ ret' = [kind |-> "RuntimeError", at |-> "unfold"]
            /\ UNCHANGED computed
       ELSE /\ pc' = "loss_partition_function"
            /\ computed' = Append(computed, "sequence_score")
            /\ UNCHANGED ret
    /\ UNCHANGED <<crf_vars, f1_vars, feats_shape, tags_shape, tags_max>>

\* modules.py:49, 96-108  partition_function = self._partition_function(feats)
LossPartitionFunction ==
    /\ pc = "loss_partition_function"
    /\ IF NumTags # feats_shape[3]
       THEN /\ pc' = "loss_raised"
            /\ ret' = [kind |-> "ValueError", at |-> "num_tags"]
            /\ UNCHANGED computed
       ELSE /\ pc' = "loss_mean"
            /\ computed' = Append(computed, "partition_function")
            /\ UNCHANGED ret
    /\ UNCHANGED <<crf_vars, f1_vars, feats_shape, tags_shape, tags_max>>

\* modules.py:50-54  return -log_probability.mean()
LossReturn ==
    /\ pc = "loss_mean"
    /\ computed' = Append(computed, "log_probability")
    /\ ret' = [kind |-> "value", at |-> "loss"]
    /\ pc' = "loss_returned"
    /\ UNCHANGED <<crf_vars, f1_vars, feats_shape, tags_shape, tags_max>>

NextLoss == LossCall \/ LossSequenceScore \/ LossPartitionFunction \/ LossReturn

SpecLoss == InitLoss /\ [][NextLoss]_vars

\* a fail condition of loss holds of its arguments
FailCondition ==
    \/ Len(feats_shape) # 3
    \/ Len(tags_shape) # 2
    \/ SubSeq(feats_shape, 1, 2) # tags_shape
    \/ feats_shape[Len(feats_shape)] # NumTags

\* C4: when a fail condition holds, loss raises its shape / dimension error
\* before the sequence score or anything else is computed, and nothing else
\* fails first
C4_ChecksBeforeComputation ==
    FailCondition =>
        /\ computed = <<>>
        /\ pc \in {"loss_raised", "loss_returned"} =>
              (pc = "loss_raised" /\ ret.kind = "ValueError")

====
